---- MODULE Spec2Model ----
(***************************************************************************)
(* CanvasCue: subscription usage accounting.                               *)
(*                                                                         *)
(* The Subscription document (models/Subscription), its usage methods      *)
(* (resetMonthlyUsage, incrementDesignUsage, updateActiveDesigns) and the  *)
(* request handlers that drive them (createRequest, upgradeSubscription,   *)
(* cancelSubscription, createCheckoutSession, handleSubscriptionSuccess).  *)
(*                                                                         *)
(* The specifications share the definitions below:                         *)
(*   SpecAccount   one loaded document, its methods called one after the   *)
(*                 other (each async method runs to completion);           *)
(*   Spec          the request handlers of one user with a subscription,   *)
(*                 each working on its own loaded copy, interleaved at     *)
(*                 their await points;                                     *)
(*   SpecCheckout  the checkout, success, upgrade and cancel handlers of   *)
(*                 one user who starts without a subscription;             *)
(*   SpecCreate    the request-creation handlers on the starter tier;      *)
(*   SpecCancel    the cancelSubscription handler over requests in any     *)
(*                 status;                                                 *)
(*   SpecLifecycle the cancel, pause and resume methods of one document;   *)
(*   SpecBilling   the billing projections of one subscription over        *)
(*                 calendar dates;                                         *)
(*   SpecCatalog   the tier collection and seedDefaultTiers.               *)
(***************************************************************************)
EXTENDS Integers, Sequences, FiniteSets, TLC

VARIABLES now, subs, requests, sessions, h, resp, acct, last, calls, resets,
          tiers

vars ==
    <<now, subs, requests, sessions, h, resp, acct, last, calls, resets, tiers>>

(***************************************************************************)
(* Time.  A Date is a number of ticks; TicksPerMonth ticks make a calendar *)
(* month and MonthsPerYear months a year (Date.getMonth is 0..11).         *)
(***************************************************************************)
TicksPerMonth == 2

MonthsPerYear == 12

TicksPerYear == TicksPerMonth * MonthsPerYear

\* the clock is explored over the first MaxMonth months of years 0..MaxYear
MaxMonth == 2

MaxYear == 1

ClockRange(t) ==
    /\ t \div TicksPerYear <= MaxYear
    /\ (t % TicksPerYear) \div TicksPerMonth < MaxMonth

getMonth(d) == (d \div TicksPerMonth) % MonthsPerYear

getFullYear(d) == d \div TicksPerYear

(***************************************************************************)
(* Tier catalog.  Tiers 1 and 2 are small catalog entries; tier 3 carries  *)
(* the quotas of the seeded 'starter' tier.                                *)
(***************************************************************************)
QuotaLow == 1

QuotaHigh == 2

SimLow == 1

SimHigh == 2

StarterDesignsPerMonth == 10

StarterSimultaneousDesigns == 1

TierIds == {1, 2, 3}

designsPerMonth(t) ==
    CASE t = 1 -> QuotaLow
      [] t = 2 -> QuotaHigh
      [] OTHER -> StarterDesignsPerMonth

simultaneousDesigns(t) ==
    CASE t = 1 -> SimLow
      [] t = 2 -> SimHigh
      [] OTHER -> StarterSimultaneousDesigns

(***************************************************************************)
(* The Subscription document.                                              *)
(***************************************************************************)
Fields ==
    {"tier", "status", "designsUsedThisMonth", "activeDesignRequests",
     "lastResetDate", "stripeSubscriptionId", "canceledAt",
     "cancelationReason", "pausedAt", "resumeDate"}

\* the six values of the status enum
Statuses == {"active", "canceled", "past_due", "trialing", "paused", "expired"}

\* a Date path that holds null
NullDate == 0 - 1

\* a String path that holds null
NullReason == "null"

NewSubscription(tierId, stripeId, t) ==
    [tier |-> tierId, status |-> "active", designsUsedThisMonth |-> 0,
     activeDesignRequests |-> 0, lastResetDate |-> t,
     stripeSubscriptionId |-> stripeId, canceledAt |-> NullDate,
     cancelationReason |-> NullReason, pausedAt |-> NullDate,
     resumeDate |-> NullDate]

\* document.save(): only the paths modified since the document was loaded
\* (or last saved) are written to the stored document
save(stored, doc, base) ==
    [f \in DOMAIN stored |-> IF doc[f] # base[f] THEN doc[f] ELSE stored[f]]

NoError == "ok"

MonthlyLimitError == "Monthly design limit reached"

SimultaneousLimitError == "Simultaneous design limit exceeded"

NotPausedError == "Subscription is not paused"

isActive_activeOnly(doc) == doc.status = "active"

isActive(doc) == doc.status = "active" \/ doc.status = "trialing"

\* the virtuals below read the tier; populated tells whether the document's
\* tier path holds the tier document (populate('tier')) or only its id
hasReachedDesignLimit_gt(doc, populated) ==
    IF ~populated THEN TRUE
    ELSE doc.designsUsedThisMonth > designsPerMonth(doc.tier)

hasReachedDesignLimit(doc, populated) ==
    IF ~populated THEN TRUE
    ELSE doc.designsUsedThisMonth >= designsPerMonth(doc.tier)

canAddActiveDesign_le(doc, populated) ==
    IF ~populated THEN FALSE
    ELSE doc.activeDesignRequests <= simultaneousDesigns(doc.tier)

canAddActiveDesign(doc, populated) ==
    IF ~populated THEN FALSE
    ELSE doc.activeDesignRequests < simultaneousDesigns(doc.tier)

resetMonthlyUsage_always(doc, t) ==
    [doc |-> [doc EXCEPT !.designsUsedThisMonth = 0, !.lastResetDate = t],
     ret |-> TRUE, saved |-> TRUE]

resetMonthlyUsage_monthOnly(doc, t) ==
    IF getMonth(t) # getMonth(doc.lastResetDate)
    THEN [doc |-> [doc EXCEPT !.designsUsedThisMonth = 0, !.lastResetDate = t],
          ret |-> TRUE, saved |-> TRUE]
    ELSE [doc |-> doc, ret |-> FALSE, saved |-> FALSE]

resetMonthlyUsage_keepDate(doc, t) ==
    IF getMonth(t) # getMonth(doc.lastResetDate)
       \/ getFullYear(t) # getFullYear(doc.lastResetDate)
    THEN [doc |-> [doc EXCEPT !.designsUsedThisMonth = 0],
          ret |-> TRUE, saved |-> TRUE]
    ELSE [doc |-> doc, ret |-> FALSE, saved |-> FALSE]

resetMonthlyUsage(doc, t) ==
    IF getMonth(t) # getMonth(doc.lastResetDate)
       \/ getFullYear(t) # getFullYear(doc.lastResetDate)
    THEN [doc |-> [doc EXCEPT !.designsUsedThisMonth = 0, !.lastResetDate = t],
          ret |-> TRUE, saved |-> TRUE]
    ELSE [doc |-> doc, ret |-> FALSE, saved |-> FALSE]

\* incrementDesignUsage after its await of resetMonthlyUsage: the limit
\* check, the increment and the save
checkAndIncrement_offByOne(doc) ==
    IF doc.designsUsedThisMonth > designsPerMonth(doc.tier)
    THEN [doc |-> doc, err |-> MonthlyLimitError, ret |-> -1, saved |-> FALSE]
    ELSE [doc |-> [doc EXCEPT !.designsUsedThisMonth = @ + 1], err |-> NoError,
          ret |-> doc.designsUsedThisMonth + 1, saved |-> TRUE]

checkAndIncrement_noSave(doc) ==
    IF doc.designsUsedThisMonth >= designsPerMonth(doc.tier)
    THEN [doc |-> doc, err |-> MonthlyLimitError, ret |-> -1, saved |-> FALSE]
    ELSE [doc |-> [doc EXCEPT !.designsUsedThisMonth = @ + 1], err |-> NoError,
          ret |-> doc.designsUsedThisMonth + 1, saved |-> FALSE]

checkAndIncrement(doc) ==
    IF doc.designsUsedThisMonth >= designsPerMonth(doc.tier)
    THEN [doc |-> doc, err |-> MonthlyLimitError, ret |-> -1, saved |-> FALSE]
    ELSE [doc |-> [doc EXCEPT !.designsUsedThisMonth = @ + 1], err |-> NoError,
          ret |-> doc.designsUsedThisMonth + 1, saved |-> TRUE]

updateActiveDesigns_ge(doc, count) ==
    IF count >= simultaneousDesigns(doc.tier)
    THEN [doc |-> doc, err |-> SimultaneousLimitError, ret |-> -1, saved |-> FALSE]
    ELSE [doc |-> [doc EXCEPT !.activeDesignRequests = count], err |-> NoError,
          ret |-> count, saved |-> TRUE]

updateActiveDesigns(doc, count) ==
    IF count > simultaneousDesigns(doc.tier)
    THEN [doc |-> doc, err |-> SimultaneousLimitError, ret |-> -1, saved |-> FALSE]
    ELSE [doc |-> [doc EXCEPT !.activeDesignRequests = count], err |-> NoError,
          ret |-> count, saved |-> TRUE]

\* cancel(reason), called at time t
cancel(doc, reason, t) ==
    [doc |-> [doc EXCEPT !.status = "canceled", !.canceledAt = t,
                         !.cancelationReason = reason],
     err |-> NoError, saved |-> TRUE]

\* pause(resumeDate), called at time t
pause(doc, resumeDate, t) ==
    [doc |-> [doc EXCEPT !.status = "paused", !.pausedAt = t,
                         !.resumeDate = resumeDate],
     err |-> NoError, saved |-> TRUE]

resume_noGuard(doc) ==
    [doc |-> [doc EXCEPT !.status = "active", !.pausedAt = NullDate,
                         !.resumeDate = NullDate],
     err |-> NoError, saved |-> TRUE]

resume(doc) ==
    IF doc.status # "paused"
    THEN [doc |-> doc, err |-> NotPausedError, saved |-> FALSE]
    ELSE [doc |-> [doc EXCEPT !.status = "active", !.pausedAt = NullDate,
                              !.resumeDate = NullDate],
          err |-> NoError, saved |-> TRUE]

(***************************************************************************)
(* Handler slots (used by Spec; idle throughout SpecAccount).              *)
(***************************************************************************)
\* the two concurrent request handlers
Handlers == {1, 2}

NoDoc == NewSubscription(0, 0, 0)

IdleHandler ==
    [kind |-> "none", pc |-> "idle", sid |-> 0, doc |-> NoDoc, base |-> NoDoc,
     arg |-> 0]

\* the response most recently sent by a handler
NoResponse == [kind |-> "none", status |-> 0, message |-> ""]

(***************************************************************************)
(* SpecAccount: the methods of one loaded Subscription document.           *)
(***************************************************************************)
AccountTiers == TierIds

MaxCount == SimHigh + 1

NoCall == [op |-> "none", pre |-> NoDoc, at |-> 0, arg |-> 0, ret |-> 0,
           err |-> NoError, saved |-> FALSE]

InitAccount ==
    /\ now = 0
    /\ \E t \in AccountTiers :
          /\ acct = NewSubscription(t, 1, 0)
          /\ subs = <<NewSubscription(t, 1, 0)>>
    /\ requests = <<>>
    /\ sessions = <<>>
    /\ h = [i \in Handlers |-> IdleHandler]
    /\ resp = NoResponse
    /\ last = NoCall
    /\ calls = 0
    /\ resets = 0
    /\ tiers = <<>>

\* the calls and resets counted are those of the current calendar month
MonthHistory(t) ==
    IF getMonth(t) # getMonth(now) \/ getFullYear(t) # getFullYear(now)
    THEN calls' = 0 /\ resets' = 0
    ELSE UNCHANGED <<calls, resets>>

\* time passes: one tick
Tick ==
    /\ ClockRange(now + 1)
    /\ now' = now + 1
    /\ MonthHistory(now + 1)
    /\ UNCHANGED <<subs, requests, sessions, h, resp, acct, last, tiers>>

\* time passes: a whole month
TickMonth ==
    /\ ClockRange(now + TicksPerMonth)
    /\ now' = now + TicksPerMonth
    /\ MonthHistory(now + TicksPerMonth)
    /\ UNCHANGED <<subs, requests, sessions, h, resp, acct, last, tiers>>

\* time passes: a whole year
TickYear ==
    /\ ClockRange(now + TicksPerYear)
    /\ now' = now + TicksPerYear
    /\ MonthHistory(now + TicksPerYear)
    /\ UNCHANGED <<subs, requests, sessions, h, resp, acct, last, tiers>>

AcctResetMonthlyUsage ==
    /\ LET r == resetMonthlyUsage(acct, now) IN
          /\ acct' = r.doc
          /\ subs' = IF r.saved THEN [subs EXCEPT ![1] = save(@, r.doc, acct)]
                     ELSE subs
          /\ last' = [op |-> "resetMonthlyUsage", pre |-> acct, at |-> now,
                      arg |-> 0, ret |-> IF r.ret THEN 1 ELSE 0,
                      err |-> NoError, saved |-> r.saved]
          /\ resets' = IF r.ret THEN resets + 1 ELSE resets
    /\ UNCHANGED <<now, requests, sessions, h, resp, calls, tiers>>

AcctIncrementDesignUsage ==
    /\ calls <= designsPerMonth(acct.tier) + 1
    /\ LET r == resetMonthlyUsage(acct, now)
           c == checkAndIncrement(r.doc)
       IN
          /\ acct' = c.doc
          /\ subs' = [subs EXCEPT ![1] =
                        LET s1 == IF r.saved THEN save(@, r.doc, acct) ELSE @
                        IN  IF c.saved THEN save(s1, c.doc, r.doc) ELSE s1]
          /\ last' = [op |-> "incrementDesignUsage", pre |-> acct, at |-> now,
                      arg |-> 0, ret |-> c.ret, err |-> c.err,
                      saved |-> r.saved \/ c.saved]
          /\ resets' = IF r.ret THEN resets + 1 ELSE resets
    /\ calls' = calls + 1
    /\ UNCHANGED <<now, requests, sessions, h, resp, tiers>>

AcctUpdateActiveDesigns ==
    /\ \E count \in 0..MaxCount :
          LET r == updateActiveDesigns(acct, count) IN
             /\ acct' = r.doc
             /\ subs' = IF r.saved THEN [subs EXCEPT ![1] = save(@, r.doc, acct)]
                        ELSE subs
             /\ last' = [op |-> "updateActiveDesigns", pre |-> acct, at |-> now,
                         arg |-> count, ret |-> r.ret, err |-> r.err,
                         saved |-> r.saved]
    /\ UNCHANGED <<now, requests, sessions, h, resp, calls, resets, tiers>>

\* one Boolean as the number a call record carries
Bit(b) == IF b THEN 1 ELSE 0

\* the hasReachedDesignLimit virtual, read from a copy of the document that
\* was loaded with or without populate('tier')
AcctHasReachedDesignLimit ==
    /\ \E populated \in BOOLEAN :
          last' = [op |-> "hasReachedDesignLimit", pre |-> acct, at |-> now,
                   arg |-> Bit(populated),
                   ret |-> Bit(hasReachedDesignLimit(acct, populated)),
                   err |-> NoError, saved |-> FALSE]
    /\ UNCHANGED <<now, subs, requests, sessions, h, resp, acct, calls, resets, tiers>>

\* the canAddActiveDesign virtual, read the same way
AcctCanAddActiveDesign ==
    /\ \E populated \in BOOLEAN :
          last' = [op |-> "canAddActiveDesign", pre |-> acct, at |-> now,
                   arg |-> Bit(populated),
                   ret |-> Bit(canAddActiveDesign(acct, populated)),
                   err |-> NoError, saved |-> FALSE]
    /\ UNCHANGED <<now, subs, requests, sessions, h, resp, acct, calls, resets, tiers>>

NextAccount ==
    \/ Tick
    \/ TickYear
    \/ AcctResetMonthlyUsage
    \/ AcctIncrementDesignUsage
    \/ AcctUpdateActiveDesigns
    \/ AcctHasReachedDesignLimit
    \/ AcctCanAddActiveDesign

SpecAccount == InitAccount /\ [][NextAccount]_vars

(***************************************************************************)
(* Spec: the request handlers of one user.  Every handler works on the     *)
(* copy of the Subscription document it loaded; a step is one database     *)
(* operation together with the synchronous code around it.                 *)
(***************************************************************************)
MaxRequests == 2

MaxSessions == 2

\* tiers offered for checkout and upgrade (active, not custom)
HandlerTiers == {1, 2}

\* the statuses createRequest (dashboardUtils) counts as active
ActiveStatuses == {"submitted", "in-review", "in-progress", "revision-requested"}

StripeId(session) == session + 1

\* Subscription.findActiveByUser: the documents its query matches (the one
\* it returns is loaded with its tier populated)
findActiveByUser_anyStatus == DOMAIN subs

findActiveByUser ==
    {s \in DOMAIN subs : subs[s].status \in {"active", "trialing"}}

countDocuments(statuses) ==
    Cardinality({r \in DOMAIN requests : requests[r] \in statuses})

\* a new request is served in the lowest free slot
Idle(i) == h[i].pc = "idle" /\ \A j \in Handlers : j < i => h[j].pc # "idle"

Respond(i, kind, status, message) ==
    /\ h' = [h EXCEPT ![i] = IdleHandler]
    /\ resp' = [kind |-> kind, status |-> status, message |-> message]

Continue(i, rec) ==
    /\ h' = [h EXCEPT ![i] = rec]
    /\ resp' = resp

Load(kind, pc, s, arg) ==
    [kind |-> kind, pc |-> pc, sid |-> s, doc |-> subs[s], base |-> subs[s],
     arg |-> arg]

Creating == {i \in Handlers : h[i].pc = "insert"}

Init ==
    /\ now = 0
    /\ \E t \in HandlerTiers : subs = <<NewSubscription(t, 1, 0)>>
    /\ requests = <<>>
    /\ sessions = <<>>
    /\ h = [i \in Handlers |-> IdleHandler]
    /\ resp = NoResponse
    /\ acct = NoDoc
    /\ last = NoCall
    /\ calls = 0
    /\ resets = 0
    /\ tiers = <<>>

hframe == <<now, acct, last, calls, resets, tiers>>

\* ---- createRequest (dashboardUtils) ----
DashCreateRequest_find(i) ==
    /\ Idle(i)
    /\ Len(requests) + Cardinality(Creating) < MaxRequests
    /\ IF findActiveByUser = {}
       THEN Respond(i, "dashCreateRequest", 403, "Active subscription required")
       ELSE \E s \in findActiveByUser :
              IF hasReachedDesignLimit(subs[s], TRUE)
              THEN Respond(i, "dashCreateRequest", 403, "Monthly design limit reached")
              ELSE IF ~canAddActiveDesign(subs[s], TRUE)
              THEN Respond(i, "dashCreateRequest", 403,
                           "Simultaneous design request limit reached")
              ELSE Continue(i, Load("dashCreateRequest", "insert", s, 0))
    /\ UNCHANGED <<subs, requests, sessions, hframe>>

\* ---- createRequest / createRequestAPI (requests controller) ----
CreateRequest_find(i) ==
    /\ Idle(i)
    /\ Len(requests) + Cardinality(Creating) < MaxRequests
    /\ IF findActiveByUser = {}
       THEN Respond(i, "createRequest", 403, "Active subscription required")
       ELSE \E s \in findActiveByUser :
              IF hasReachedDesignLimit(subs[s], TRUE)
              THEN Respond(i, "createRequest", 403, "Monthly design limit reached")
              ELSE Continue(i, Load("createRequest", "insert", s, 0))
    /\ UNCHANGED <<subs, requests, sessions, hframe>>

\* request.save()
CreateRequest_insert(i) ==
    /\ h[i].pc = "insert"
    /\ requests' = Append(requests,
                     IF h[i].kind = "dashCreateRequest" THEN "submitted" ELSE "draft")
    /\ Continue(i, [h[i] EXCEPT !.pc = "reset"])
    /\ UNCHANGED <<subs, sessions, hframe>>

\* incrementDesignUsage, up to the end of its await of resetMonthlyUsage
IncrementDesignUsage_reset(i) ==
    /\ h[i].pc = "reset"
    /\ LET r == resetMonthlyUsage(h[i].doc, now) IN
          /\ subs' = IF r.saved
                     THEN [subs EXCEPT ![h[i].sid] = save(@, r.doc, h[i].base)]
                     ELSE subs
          /\ Continue(i, [h[i] EXCEPT !.doc = r.doc,
                                      !.base = IF r.saved THEN r.doc ELSE @,
                                      !.pc = "incr"])
    /\ UNCHANGED <<requests, sessions, hframe>>

\* incrementDesignUsage, from populate('tier') to its return or throw
IncrementDesignUsage_incr(i) ==
    /\ h[i].pc = "incr"
    /\ LET c == checkAndIncrement(h[i].doc) IN
          IF c.err # NoError
          THEN /\ Respond(i, h[i].kind, 500, "Failed to create request")
               /\ subs' = subs
          ELSE /\ subs' = [subs EXCEPT ![h[i].sid] = save(@, c.doc, h[i].base)]
               /\ Continue(i, [h[i] EXCEPT
                              !.doc = c.doc, !.base = c.doc,
                              !.pc = IF h[i].kind = "dashCreateRequest"
                                     THEN "count" ELSE "update",
                              !.arg = c.doc.activeDesignRequests + 1])
    /\ UNCHANGED <<requests, sessions, hframe>>

\* DesignRequest.countDocuments of createRequest (dashboardUtils)
DashCreateRequest_count(i) ==
    /\ h[i].pc = "count"
    /\ Continue(i, [h[i] EXCEPT !.arg = countDocuments(ActiveStatuses),
                                !.pc = "update"])
    /\ UNCHANGED <<subs, requests, sessions, hframe>>

\* updateActiveDesigns and the response
CreateRequest_update(i) ==
    /\ h[i].pc = "update"
    /\ LET u == updateActiveDesigns(h[i].doc, h[i].arg) IN
          IF u.err # NoError
          THEN /\ Respond(i, h[i].kind, 500, "Failed to create request")
               /\ subs' = subs
          ELSE /\ subs' = [subs EXCEPT ![h[i].sid] = save(@, u.doc, h[i].base)]
               /\ Respond(i, h[i].kind,
                          IF h[i].kind = "dashCreateRequest" THEN 200 ELSE 302, "")
    /\ UNCHANGED <<requests, sessions, hframe>>

\* ---- createCheckoutSession ----
createCheckoutSession(i, tierId) ==
    /\ Len(sessions) < MaxSessions
    /\ sessions' = Append(sessions, [tierId |-> tierId, paid |-> FALSE])
    /\ Respond(i, "createCheckoutSession", 200, "")

CreateCheckoutSession(i) ==
    /\ Idle(i)
    /\ \E tierId \in HandlerTiers : createCheckoutSession(i, tierId)
    /\ UNCHANGED <<subs, requests, hframe>>

\* the user pays on the provider's checkout page
PayCheckout ==
    /\ \E k \in DOMAIN sessions :
          /\ ~sessions[k].paid
          /\ sessions' = [sessions EXCEPT ![k].paid = TRUE]
    /\ UNCHANGED <<subs, requests, h, resp, hframe>>

\* ---- upgradeSubscription ----
UpgradeSubscription_find(i) ==
    /\ Idle(i)
    /\ \E tierId \in HandlerTiers :
          IF findActiveByUser = {}
          THEN createCheckoutSession(i, tierId)
          ELSE /\ \E s \in findActiveByUser :
                    Continue(i, Load("upgradeSubscription", "upgrade", s, tierId))
               /\ sessions' = sessions
    /\ UNCHANGED <<subs, requests, hframe>>

UpgradeSubscription_save(i) ==
    /\ h[i].pc = "upgrade"
    /\ LET d == [h[i].doc EXCEPT !.tier = h[i].arg] IN
          subs' = [subs EXCEPT ![h[i].sid] = save(@, d, h[i].base)]
    /\ Respond(i, "upgradeSubscription", 200, "Subscription updated successfully")
    /\ UNCHANGED <<requests, sessions, hframe>>

\* ---- cancelSubscription ----
CancelSubscription_find(i) ==
    /\ Idle(i)
    /\ IF findActiveByUser = {}
       THEN Respond(i, "cancelSubscription", 404, "No active subscription found")
       ELSE \E s \in findActiveByUser :
              Continue(i, Load("cancelSubscription", "cancel", s, 0))
    /\ UNCHANGED <<subs, requests, sessions, hframe>>

\* the reason a cancelSubscription request carries
HandlerReason == "requested"

CancelSubscription_save(i) ==
    /\ h[i].pc = "cancel"
    /\ LET d == cancel(h[i].doc, HandlerReason, now).doc IN
          /\ subs' = [subs EXCEPT ![h[i].sid] = save(@, d, h[i].base)]
          /\ Continue(i, [h[i] EXCEPT !.doc = d, !.base = d, !.pc = "updateMany"])
    /\ UNCHANGED <<requests, sessions, hframe>>

CancelSubscription_updateMany_all(i) ==
    /\ h[i].pc = "updateMany"
    /\ requests' = [r \in DOMAIN requests |-> "canceled"]
    /\ Respond(i, "cancelSubscription", 200, "")
    /\ UNCHANGED <<subs, sessions, hframe>>

CancelSubscription_updateMany(i) ==
    /\ h[i].pc = "updateMany"
    /\ requests' = [r \in DOMAIN requests |->
                       IF requests[r] \in {"draft", "submitted"}
                       THEN "canceled" ELSE requests[r]]
    /\ Respond(i, "cancelSubscription", 200, "")
    /\ UNCHANGED <<subs, sessions, hframe>>

\* ---- handleSubscriptionSuccess ----
HandleSubscriptionSuccess_find(i) ==
    /\ Idle(i)
    /\ \E k \in DOMAIN sessions :
          IF sessions[k].paid
             /\ ~\E s \in DOMAIN subs : subs[s].stripeSubscriptionId = StripeId(k)
          THEN Continue(i, [IdleHandler EXCEPT !.kind = "handleSubscriptionSuccess",
                                               !.pc = "create", !.arg = k])
          ELSE Respond(i, "handleSubscriptionSuccess", 302, "")
    /\ UNCHANGED <<subs, requests, sessions, hframe>>

\* subscription.save() of the new document; stripeSubscriptionId is unique
HandleSubscriptionSuccess_save(i) ==
    /\ h[i].pc = "create"
    /\ LET k == h[i].arg IN
          subs' = IF \E s \in DOMAIN subs : subs[s].stripeSubscriptionId = StripeId(k)
                  THEN subs
                  ELSE Append(subs, NewSubscription(sessions[k].tierId, StripeId(k), now))
    /\ Respond(i, "handleSubscriptionSuccess", 302, "")
    /\ UNCHANGED <<requests, sessions, hframe>>

\* ---- request status changes ----
\* updateRequest with submit = true
UpdateRequest_submit ==
    /\ \E r \in DOMAIN requests :
          /\ requests[r] = "draft"
          /\ requests' = [requests EXCEPT ![r] = "submitted"]
    /\ UNCHANGED <<subs, sessions, h, resp, hframe>>

Next ==
    \/ TickMonth
    \/ UpdateRequest_submit
    \/ \E i \in Handlers :
          \/ DashCreateRequest_find(i)
          \/ CreateRequest_find(i)
          \/ CreateRequest_insert(i)
          \/ IncrementDesignUsage_reset(i)
          \/ IncrementDesignUsage_incr(i)
          \/ DashCreateRequest_count(i)
          \/ CreateRequest_update(i)
          \/ UpgradeSubscription_find(i)
          \/ UpgradeSubscription_save(i)
          \/ CancelSubscription_find(i)
          \/ CancelSubscription_save(i)
          \/ CancelSubscription_updateMany(i)

Spec == Init /\ [][Next]_vars

(***************************************************************************)
(* SpecCheckout: the subscription lifecycle of one user, from no           *)
(* subscription, through the checkout, success, upgrade and cancel         *)
(* handlers.                                                               *)
(***************************************************************************)
InitCheckout ==
    /\ now = 0
    /\ subs = <<>>
    /\ requests = <<>>
    /\ sessions = <<>>
    /\ h = [i \in Handlers |-> IdleHandler]
    /\ resp = NoResponse
    /\ acct = NoDoc
    /\ last = NoCall
    /\ calls = 0
    /\ resets = 0
    /\ tiers = <<>>

NextCheckout ==
    \/ PayCheckout
    \/ \E i \in Handlers :
          \/ CreateCheckoutSession(i)
          \/ HandleSubscriptionSuccess_find(i)
          \/ HandleSubscriptionSuccess_save(i)
          \/ UpgradeSubscription_find(i)
          \/ UpgradeSubscription_save(i)
          \/ CancelSubscription_find(i)
          \/ CancelSubscription_save(i)
          \/ CancelSubscription_updateMany(i)

SpecCheckout == InitCheckout /\ [][NextCheckout]_vars

(***************************************************************************)
(* SpecCreate: the request-creation handlers of one user whose             *)
(* subscription is on the seeded 'starter' tier (10 designs a month, 1     *)
(* simultaneous design).                                                   *)
(***************************************************************************)
InitCreate ==
    /\ now = 0
    /\ subs = <<NewSubscription(3, 1, 0)>>
    /\ requests = <<>>
    /\ sessions = <<>>
    /\ h = [i \in Handlers |-> IdleHandler]
    /\ resp = NoResponse
    /\ acct = NoDoc
    /\ last = NoCall
    /\ calls = 0
    /\ resets = 0
    /\ tiers = <<>>

NextCreate ==
    \/ TickMonth
    \/ UpdateRequest_submit
    \/ \E i \in Handlers :
          \/ DashCreateRequest_find(i)
          \/ CreateRequest_find(i)
          \/ CreateRequest_insert(i)
          \/ IncrementDesignUsage_reset(i)
          \/ IncrementDesignUsage_incr(i)
          \/ DashCreateRequest_count(i)
          \/ CreateRequest_update(i)

SpecCreate == InitCreate /\ [][NextCreate]_vars

(***************************************************************************)
(* SpecCancel: the cancelSubscription handler of one user whose account    *)
(* has usage on it and whose design requests are in any of their           *)
(* statuses.  last keeps the account and the requests as they were before  *)
(* the handler ran.                                                        *)
(***************************************************************************)
MaxCancelRequests == 2

\* the values of the DesignRequest status enum
RequestStatuses ==
    {"draft", "submitted", "in-review", "in-progress", "revision-requested",
     "pending-approval", "approved", "completed", "canceled"}

\* the sequences of at most n request statuses
RequestLists(n) ==
    UNION {[1..k -> RequestStatuses] : k \in 0..n}

InitCancel ==
    /\ now = 0
    /\ \E used \in 0..QuotaHigh, active \in 0..SimHigh,
          rs \in RequestLists(MaxCancelRequests) :
          LET doc == [NewSubscription(2, 1, 0) EXCEPT
                         !.designsUsedThisMonth = used,
                         !.activeDesignRequests = active]
          IN  /\ subs = <<doc>>
              /\ requests = rs
              /\ last = [NoCall EXCEPT !.pre = doc, !.arg = rs]
    /\ sessions = <<>>
    /\ h = [i \in Handlers |-> IdleHandler]
    /\ resp = NoResponse
    /\ acct = NoDoc
    /\ calls = 0
    /\ resets = 0
    /\ tiers = <<>>

NextCancel ==
    \/ TickMonth
    \/ \E i \in Handlers :
          \/ CancelSubscription_find(i)
          \/ CancelSubscription_save(i)
          \/ CancelSubscription_updateMany(i)

SpecCancel == InitCancel /\ [][NextCancel]_vars

(***************************************************************************)
(* SpecLifecycle: the status of one loaded Subscription document, its      *)
(* cancel, pause and resume methods called one after the other, and the    *)
(* isActive virtual and findActiveByUser query read in between.            *)
(***************************************************************************)
\* statuses a document is in without cancel or pause having run: 'active'
\* from creation, the others written by the payment provider's events
ExternalStatuses == Statuses \ {"canceled", "paused"}

\* the reasons a caller passes to cancel
Reasons == {"too expensive", "no longer needed"}

\* the resume dates a caller passes to pause at time t: none, or a month on
ResumeDates(t) == {NullDate, t + TicksPerMonth}

InitLifecycle ==
    /\ now = 0
    /\ \E st \in ExternalStatuses :
          /\ acct = [NewSubscription(1, 1, 0) EXCEPT !.status = st]
          /\ subs = <<[NewSubscription(1, 1, 0) EXCEPT !.status = st]>>
    /\ requests = <<>>
    /\ sessions = <<>>
    /\ h = [i \in Handlers |-> IdleHandler]
    /\ resp = NoResponse
    /\ last = NoCall
    /\ calls = 0
    /\ resets = 0
    /\ tiers = <<>>

\* a method call on the loaded document: its result r, what was saved
Called(op, r) ==
    /\ acct' = r.doc
    /\ subs' = IF r.saved THEN [subs EXCEPT ![1] = save(@, r.doc, acct)]
               ELSE subs
    /\ last' = [op |-> op, pre |-> acct, at |-> now, arg |-> 0, ret |-> 0,
                err |-> r.err, saved |-> r.saved]
    /\ UNCHANGED <<now, requests, sessions, h, resp, calls, resets, tiers>>

AcctCancel == \E reason \in Reasons : Called("cancel", cancel(acct, reason, now))

AcctPause ==
    \E resumeDate \in ResumeDates(now) :
       Called("pause", pause(acct, resumeDate, now))

AcctResume == Called("resume", resume(acct))

AcctIsActive ==
    /\ last' = [op |-> "isActive", pre |-> acct, at |-> now, arg |-> 0,
                ret |-> Bit(isActive(acct)), err |-> NoError, saved |-> FALSE]
    /\ UNCHANGED <<now, subs, requests, sessions, h, resp, acct, calls, resets, tiers>>

AcctFindActiveByUser ==
    /\ last' = [op |-> "findActiveByUser", pre |-> acct, at |-> now, arg |-> 0,
                ret |-> Cardinality(findActiveByUser), err |-> NoError,
                saved |-> FALSE]
    /\ UNCHANGED <<now, subs, requests, sessions, h, resp, acct, calls, resets, tiers>>

NextLifecycle ==
    \/ Tick
    \/ AcctCancel
    \/ AcctPause
    \/ AcctResume
    \/ AcctIsActive
    \/ AcctFindActiveByUser

SpecLifecycle == InitLifecycle /\ [][NextLifecycle]_vars

(***************************************************************************)
(* SpecBilling: the billing projections of one Subscription document,      *)
(* calculateNextBillingDate and calculateProration.  Here a Date is a      *)
(* calendar date [y, m, d, t]: year, month 0..11, day of the month and     *)
(* time of day in ticks; money is counted in hundredths, a Number that     *)
(* need not be whole is a fraction [n, d] in lowest terms.                 *)
(***************************************************************************)
TicksPerDay == 2

\* the clock of SpecBilling runs for MaxBillingTicks ticks from NowStart
MaxBillingTicks == 2

NowStart == [y |-> 2024, m |-> 0, d |-> 30, t |-> 0]

\* the period ends explored: these days, where the month has them, of
\* these months (January, February, April, August, November, December) of
\* these years
EndYears == {2023, 2024}

EndMonths == {0, 1, 3, 7, 10, 11}

EndDays == {1, 15, 28, 29, 30, 31}

IsLeap(y) == (y % 4 = 0 /\ y % 100 # 0) \/ y % 400 = 0

DaysInMonth(y, m) ==
    CASE m = 1 -> IF IsLeap(y) THEN 29 ELSE 28
      [] m \in {3, 5, 8, 10} -> 30
      [] OTHER -> 31

RECURSIVE DaysBeforeMonth(_, _)
DaysBeforeMonth(y, m) ==
    IF m = 0 THEN 0 ELSE DaysBeforeMonth(y, m - 1) + DaysInMonth(y, m - 1)

\* days from the epoch (1 January 1970) to the first day of year y
DaysBeforeYear(y) ==
    365 * (y - 1970) + (y - 1969) \div 4 - (y - 1901) \div 100
        + (y - 1601) \div 400

\* days from the epoch to the day of date
DayNumber(date) ==
    DaysBeforeYear(date.y) + DaysBeforeMonth(date.y, date.m) + date.d - 1

\* Date.getTime, in ticks
getTime(date) == DayNumber(date) * TicksPerDay + date.t

\* Date.setMonth(month) with month >= 0: months past December carry into
\* the year, and a day the month does not have carries into the next month
setMonth(date, month) ==
    LET y1 == date.y + month \div MonthsPerYear
        m1 == month % MonthsPerYear
        dim == DaysInMonth(y1, m1)
    IN  IF date.d <= dim
        THEN [date EXCEPT !.y = y1, !.m = m1]
        ELSE [date EXCEPT !.y = IF m1 = MonthsPerYear - 1 THEN y1 + 1 ELSE y1,
                          !.m = (m1 + 1) % MonthsPerYear,
                          !.d = date.d - dim]

\* the Date one tick after date
nextTick(date) ==
    IF date.t + 1 < TicksPerDay THEN [date EXCEPT !.t = @ + 1]
    ELSE IF date.d < DaysInMonth(date.y, date.m)
    THEN [date EXCEPT !.t = 0, !.d = @ + 1]
    ELSE setMonth([date EXCEPT !.t = 0, !.d = 1], date.m + 1)

RECURSIVE GCD(_, _)
GCD(a, b) == IF b = 0 THEN a ELSE GCD(b, a % b)

Abs(a) == IF a < 0 THEN 0 - a ELSE a

\* the Number n / d, d > 0
Frac(n, d) ==
    LET g == GCD(Abs(n), d) IN [n |-> n \div g, d |-> d \div g]

FracTimes(a, k) == Frac(a.n * k, a.d)

FracMinus(a, b) ==
    LET l == (a.d * b.d) \div GCD(a.d, b.d)
    IN  Frac(a.n * (l \div a.d) - b.n * (l \div b.d), l)

\* Math.ceil(a / b), b > 0
Ceil(a, b) == 0 - ((0 - a) \div b)

BillingPeriods == {"monthly", "quarterly"}

\* the seeded tier catalog
Plans == {"starter", "professional", "enterprise"}

pricing(plan) ==
    CASE plan = "starter" -> [monthly |-> 29900, quarterly |-> 76425]
      [] plan = "professional" -> [monthly |-> 39900, quarterly |-> 101745]
      [] OTHER -> [monthly |-> 0, quarterly |-> 0]

calculatePrice(plan, billingPeriod) ==
    IF billingPeriod = "quarterly" THEN pricing(plan).quarterly
    ELSE pricing(plan).monthly

MonthlyDays == 30

QuarterlyDays == 90

calculateNextBillingDate_monthly(doc) ==
    setMonth(doc.currentPeriodEnd, doc.currentPeriodEnd.m + 1)

calculateNextBillingDate(doc) ==
    IF doc.billingPeriod = "quarterly"
    THEN setMonth(doc.currentPeriodEnd, doc.currentPeriodEnd.m + 3)
    ELSE setMonth(doc.currentPeriodEnd, doc.currentPeriodEnd.m + 1)

calculateProration_oneDivisor(doc, newPlan, newBillingPeriod, t) ==
    LET daysRemaining ==
            Ceil(getTime(doc.currentPeriodEnd) - getTime(t), TicksPerDay)
        totalDays ==
            IF doc.billingPeriod = "quarterly" THEN QuarterlyDays
            ELSE MonthlyDays
        currentDailyRate == Frac(doc.amount, totalDays)
        newAmount == calculatePrice(newPlan, newBillingPeriod)
        newDailyRate == Frac(newAmount, totalDays)
        credit == FracTimes(currentDailyRate, daysRemaining)
        charge == FracTimes(newDailyRate, daysRemaining)
    IN  [credit |-> credit, charge |-> charge,
         proration |-> FracMinus(charge, credit),
         daysRemaining |-> daysRemaining]

calculateProration(doc, newPlan, newBillingPeriod, t) ==
    LET daysRemaining ==
            Ceil(getTime(doc.currentPeriodEnd) - getTime(t), TicksPerDay)
        totalDays ==
            IF doc.billingPeriod = "quarterly" THEN QuarterlyDays
            ELSE MonthlyDays
        currentDailyRate == Frac(doc.amount, totalDays)
        newAmount == calculatePrice(newPlan, newBillingPeriod)
        newDailyRate ==
            Frac(newAmount, IF newBillingPeriod = "quarterly"
                            THEN QuarterlyDays ELSE MonthlyDays)
        credit == FracTimes(currentDailyRate, daysRemaining)
        charge == FracTimes(newDailyRate, daysRemaining)
    IN  [credit |-> credit, charge |-> charge,
         proration |-> FracMinus(charge, credit),
         daysRemaining |-> daysRemaining]

\* Date subtraction and Math.ceil of the daysUntilNextBilling virtual
daysUntilNextBilling(doc, t) ==
    Ceil(getTime(doc.nextBillingDate) - getTime(t), TicksPerDay)

\* a call of the calculateNextBillingDate method: the value it returns and
\* the document after the call (the method advances a copy of the date)
calculateNextBillingDateCall_inPlace(doc) ==
    [doc |-> [doc EXCEPT !.currentPeriodEnd = calculateNextBillingDate(doc)],
     ret |-> calculateNextBillingDate(doc)]

calculateNextBillingDateCall(doc) ==
    [doc |-> doc, ret |-> calculateNextBillingDate(doc)]

\* the pre('save') hook: base is the document as loaded, isNew tells a
\* document that was never saved (all its paths count as modified)
preSave_skip(doc, base, isNew) == doc

preSave(doc, base, isNew) ==
    IF isNew \/ doc.currentPeriodEnd # base.currentPeriodEnd
    THEN [doc EXCEPT !.nextBillingDate = calculateNextBillingDate(doc)]
    ELSE doc

\* the document handleSubscriptionSuccess constructs for plan and
\* billingPeriod when the provider's current period ends at periodEnd
NewBilling(plan, billingPeriod, periodEnd) ==
    [tier |-> plan, billingPeriod |-> billingPeriod,
     amount |-> calculatePrice(plan, billingPeriod),
     currentPeriodEnd |-> periodEnd, nextBillingDate |-> periodEnd]

PeriodEnds ==
    {[y |-> y, m |-> m, d |-> d, t |-> 0] :
        y \in EndYears, m \in EndMonths, d \in EndDays}

InitBilling ==
    /\ now = NowStart
    /\ acct = NoDoc
    /\ subs = <<>>
    /\ requests = <<>>
    /\ sessions = <<>>
    /\ h = [i \in Handlers |-> IdleHandler]
    /\ resp = NoResponse
    /\ last = NoCall
    /\ calls = 0
    /\ resets = 0
    /\ tiers = <<>>

\* time passes: one tick
BillingTick ==
    /\ getTime(now) - getTime(NowStart) < MaxBillingTicks
    /\ now' = nextTick(now)
    /\ UNCHANGED <<subs, requests, sessions, h, resp, acct, last, calls, resets, tiers>>

\* handleSubscriptionSuccess: the first save of the new document
CreateSubscription ==
    /\ subs = <<>>
    /\ \E plan \in Plans, bp \in BillingPeriods, e \in PeriodEnds :
          /\ e.d <= DaysInMonth(e.y, e.m)
          /\ LET doc == NewBilling(plan, bp, e)
                 saved == preSave(doc, doc, TRUE)
             IN  /\ acct' = saved
                 /\ subs' = <<saved>>
                 /\ last' = [op |-> "create", pre |-> doc, at |-> now,
                             arg |-> 0, ret |-> 0, err |-> NoError,
                             saved |-> TRUE]
    /\ UNCHANGED <<now, requests, sessions, h, resp, calls, resets, tiers>>

ChangePlan_keepAmount ==
    /\ subs # <<>>
    /\ \E plan \in Plans, bp \in BillingPeriods :
          LET doc == [acct EXCEPT !.tier = plan, !.billingPeriod = bp]
              saved == preSave(doc, acct, FALSE)
          IN  /\ acct' = saved
              /\ subs' = [subs EXCEPT ![1] = save(@, saved, acct)]
              /\ last' = [op |-> "upgrade", pre |-> acct, at |-> now,
                          arg |-> [tier |-> plan, billingPeriod |-> bp],
                          ret |-> 0, err |-> NoError, saved |-> TRUE]
    /\ UNCHANGED <<now, requests, sessions, h, resp, calls, resets, tiers>>

\* upgradeSubscription, from its assignments to the end of its save
ChangePlan ==
    /\ subs # <<>>
    /\ \E plan \in Plans, bp \in BillingPeriods :
          LET doc == [acct EXCEPT !.tier = plan, !.billingPeriod = bp,
                                  !.amount = calculatePrice(plan, bp)]
              saved == preSave(doc, acct, FALSE)
          IN  /\ acct' = saved
              /\ subs' = [subs EXCEPT ![1] = save(@, saved, acct)]
              /\ last' = [op |-> "upgrade", pre |-> acct, at |-> now,
                          arg |-> [tier |-> plan, billingPeriod |-> bp],
                          ret |-> 0, err |-> NoError, saved |-> TRUE]
    /\ UNCHANGED <<now, requests, sessions, h, resp, calls, resets, tiers>>

CalculateNextBillingDate ==
    /\ subs # <<>>
    /\ LET r == calculateNextBillingDateCall(acct) IN
          /\ acct' = r.doc
          /\ last' = [op |-> "calculateNextBillingDate", pre |-> acct,
                      at |-> now, arg |-> 0, ret |-> r.ret, err |-> NoError,
                      saved |-> FALSE]
    /\ UNCHANGED <<now, subs, requests, sessions, h, resp, calls, resets, tiers>>

DaysUntilNextBilling ==
    /\ subs # <<>>
    /\ last' = [op |-> "daysUntilNextBilling", pre |-> acct, at |-> now,
                arg |-> 0, ret |-> daysUntilNextBilling(acct, now),
                err |-> NoError, saved |-> FALSE]
    /\ UNCHANGED <<now, subs, requests, sessions, h, resp, acct, calls, resets, tiers>>

CalculateProration ==
    /\ subs # <<>>
    /\ \E newPlan \in Plans, newBillingPeriod \in BillingPeriods :
          last' = [op |-> "calculateProration", pre |-> acct, at |-> now,
                   arg |-> [tier |-> newPlan, billingPeriod |-> newBillingPeriod],
                   ret |-> calculateProration(acct, newPlan, newBillingPeriod, now),
                   err |-> NoError, saved |-> FALSE]
    /\ UNCHANGED <<now, subs, requests, sessions, h, resp, acct, calls, resets, tiers>>

NextBilling ==
    \/ BillingTick
    \/ CreateSubscription
    \/ ChangePlan
    \/ CalculateNextBillingDate
    \/ DaysUntilNextBilling
    \/ CalculateProration

SpecBilling == InitBilling /\ [][NextBilling]_vars

(***************************************************************************)
(* SpecCatalog: the SubscriptionTier collection and seedDefaultTiers.      *)
(* tiers is the collection, in insertion order; prices are in hundredths.  *)
(* A call of seedDefaultTiers runs in a handler slot, one findOneAndUpdate *)
(* per step, and leaves its outcome in last.                               *)
(***************************************************************************)
DuplicateKeyError == "E11000 duplicate key error"

\* what seedDefaultTiers writes for the tier of a name
SeedFields(name) ==
    CASE name = "starter" ->
           [name |-> name, tierLevel |-> 1,
            monthly |-> pricing(name).monthly,
            quarterly |-> pricing(name).quarterly,
            designsPerMonth |-> StarterDesignsPerMonth,
            simultaneousDesigns |-> StarterSimultaneousDesigns]
      [] name = "professional" ->
           [name |-> name, tierLevel |-> 2,
            monthly |-> pricing(name).monthly,
            quarterly |-> pricing(name).quarterly,
            designsPerMonth |-> 20, simultaneousDesigns |-> 3]
      [] OTHER ->
           [name |-> name, tierLevel |-> 3, isCustom |-> TRUE,
            monthly |-> pricing(name).monthly,
            quarterly |-> pricing(name).quarterly,
            designsPerMonth |-> 999, simultaneousDesigns |-> 999]

\* the tiers array of seedDefaultTiers
SeedTiers ==
    <<SeedFields("starter"), SeedFields("professional"),
      SeedFields("enterprise")>>

\* the schema defaults of the paths an update can leave out
TierDefaults == [isCustom |-> FALSE]

TierFields ==
    {"name", "tierLevel", "monthly", "quarterly", "designsPerMonth",
     "simultaneousDesigns", "isCustom"}

\* the document an upsert inserts: the update over the schema defaults
insertTier(tierData) ==
    [f \in TierFields |->
        IF f \in DOMAIN tierData THEN tierData[f] ELSE TierDefaults[f]]

\* the update applied to a stored document: the paths it names are set
setTier(doc, tierData) ==
    [f \in DOMAIN doc |->
        IF f \in DOMAIN tierData THEN tierData[f] ELSE doc[f]]

\* the unique index on name
nameTaken(coll, name, except) ==
    \E j \in DOMAIN coll : j \notin except /\ coll[j].name = name

findOneAndUpdate_setOnInsert(coll, tierData) ==
    LET found == {k \in DOMAIN coll : coll[k].tierLevel = tierData.tierLevel}
    IN  IF found # {} THEN [coll |-> coll, err |-> NoError]
        ELSE IF nameTaken(coll, tierData.name, {})
        THEN [coll |-> coll, err |-> DuplicateKeyError]
        ELSE [coll |-> Append(coll, insertTier(tierData)), err |-> NoError]

\* findOneAndUpdate({tierLevel}, tierData, {upsert: true})
findOneAndUpdate(coll, tierData) ==
    LET found == {k \in DOMAIN coll : coll[k].tierLevel = tierData.tierLevel}
    IN  IF nameTaken(coll, tierData.name, found)
        THEN [coll |-> coll, err |-> DuplicateKeyError]
        ELSE IF found = {}
        THEN [coll |-> Append(coll, insertTier(tierData)), err |-> NoError]
        ELSE [coll |-> [k \in DOMAIN coll |->
                           IF k \in found THEN setTier(coll[k], tierData)
                           ELSE coll[k]],
              err |-> NoError]

\* a document of an earlier catalogue: the plan of a name, kept at a level
EarlierTier(level, name, isCustom) ==
    [insertTier(SeedFields(name)) EXCEPT
        !.tierLevel = level, !.isCustom = isCustom]

\* the collections seeding can find: at most one document per level and
\* per name (the unique indexes), held in the order of their levels
EarlierCatalogs ==
    {c \in UNION {[1..n -> {EarlierTier(l, p, b) :
                              l \in TierIds, p \in Plans, b \in BOOLEAN}]
                  : n \in 0..Cardinality(TierIds)} :
        \A j, k \in DOMAIN c :
            j < k => c[j].tierLevel < c[k].tierLevel /\ c[j].name # c[k].name}

InitCatalog ==
    /\ now = 0
    /\ tiers \in EarlierCatalogs
    /\ subs = <<>>
    /\ requests = <<>>
    /\ sessions = <<>>
    /\ h = [i \in Handlers |-> IdleHandler]
    /\ resp = NoResponse
    /\ acct = NoDoc
    /\ last = NoCall
    /\ calls = 0
    /\ resets = 0

catalogFrame == <<now, subs, requests, sessions, resp, acct, calls, resets>>

SeedReturns(i, err) ==
    /\ h' = [h EXCEPT ![i] = IdleHandler]
    /\ last' = [NoCall EXCEPT !.op = "seedDefaultTiers", !.at = now,
                              !.err = err]

SeedDefaultTiers_call(i) ==
    /\ Idle(i)
    /\ h' = [h EXCEPT ![i] = [IdleHandler EXCEPT !.kind = "seedDefaultTiers",
                                                 !.pc = "upsert", !.arg = 1]]
    /\ UNCHANGED <<tiers, last, catalogFrame>>

SeedDefaultTiers_upsert(i) ==
    /\ h[i].pc = "upsert"
    /\ LET r == findOneAndUpdate(tiers, SeedTiers[h[i].arg]) IN
          /\ tiers' = r.coll
          /\ IF r.err # NoError
             THEN SeedReturns(i, r.err)
             ELSE /\ h' = [h EXCEPT ![i] =
                             IF h[i].arg < Len(SeedTiers)
                             THEN [@ EXCEPT !.arg = @ + 1]
                             ELSE [@ EXCEPT !.pc = "getActiveTiers"]]
                  /\ last' = last
    /\ UNCHANGED catalogFrame

SeedDefaultTiers_getActiveTiers(i) ==
    /\ h[i].pc = "getActiveTiers"
    /\ SeedReturns(i, NoError)
    /\ UNCHANGED <<tiers, catalogFrame>>

NextCatalog ==
    \E i \in Handlers :
        \/ SeedDefaultTiers_call(i)
        \/ SeedDefaultTiers_upsert(i)
        \/ SeedDefaultTiers_getActiveTiers(i)

SpecCatalog == InitCatalog /\ [][NextCatalog]_vars

(***************************************************************************)
(* Properties of SpecAccount.                                              *)
(***************************************************************************)
ResetDue(doc, t) ==
    \/ getMonth(t) # getMonth(doc.lastResetDate)
    \/ getFullYear(t) # getFullYear(doc.lastResetDate)

\* C1: counting the incrementDesignUsage calls made in the current calendar
\* month from a zero counter, the k-th call succeeds and returns k for every
\* k up to the tier's designsPerMonth, and the call after the quota-th fails
\* with the monthly-limit error (quota 10: the call at usage 9 returns 10,
\* the next one fails).
C1_IncrementUpToQuota ==
    (last.op = "incrementDesignUsage" /\ calls >= 1) =>
        LET quota == designsPerMonth(acct.tier) IN
          /\ calls <= quota =>
                /\ last.err = NoError
                /\ last.ret = calls
                /\ acct.designsUsedThisMonth = calls
          /\ calls > quota =>
                /\ last.err = MonthlyLimitError
                /\ acct.designsUsedThisMonth = quota

C1_Witness ==
    /\ last.op = "incrementDesignUsage"
    /\ designsPerMonth(acct.tier) = 10
    /\ calls = 11
    /\ last.pre.designsUsedThisMonth = 10
    /\ last.err = MonthlyLimitError

\* C2: incrementDesignUsage applies the monthly reset first; then at or above
\* the quota it fails with the monthly-limit error and leaves the counter as
\* it was, otherwise it adds exactly 1, persists and returns the new count.
C2_IncrementContract ==
    last.op = "incrementDesignUsage" =>
        LET due   == ResetDue(last.pre, last.at)
            start == IF due THEN 0 ELSE last.pre.designsUsedThisMonth
            quota == designsPerMonth(last.pre.tier)
        IN
          /\ acct.lastResetDate = IF due THEN last.at ELSE last.pre.lastResetDate
          /\ subs[1].lastResetDate = acct.lastResetDate
          /\ IF start >= quota
             THEN /\ last.err = MonthlyLimitError
                  /\ acct.designsUsedThisMonth = start
                  /\ subs[1].designsUsedThisMonth = start
             ELSE /\ last.err = NoError
                  /\ acct.designsUsedThisMonth = start + 1
                  /\ subs[1].designsUsedThisMonth = start + 1
                  /\ last.ret = start + 1

C2_Witness ==
    /\ last.op = "incrementDesignUsage"
    /\ ResetDue(last.pre, last.at)
    /\ last.pre.designsUsedThisMonth = designsPerMonth(last.pre.tier)
    /\ last.ret = 1
    /\ subs[1].designsUsedThisMonth = 1

\* C6: updateActiveDesigns(count) fails with the simultaneous-limit error and
\* leaves activeDesignRequests unchanged when count exceeds the tier's
\* simultaneousDesigns; for every count up to and including the quota it
\* sets activeDesignRequests to count, persists and returns count.
C6_UpdateActiveContract ==
    last.op = "updateActiveDesigns" =>
        LET quota == simultaneousDesigns(last.pre.tier) IN
          IF last.arg > quota
          THEN /\ last.err = SimultaneousLimitError
               /\ acct.activeDesignRequests = last.pre.activeDesignRequests
               /\ subs[1].activeDesignRequests = last.pre.activeDesignRequests
          ELSE /\ last.err = NoError
               /\ acct.activeDesignRequests = last.arg
               /\ subs[1].activeDesignRequests = last.arg
               /\ last.ret = last.arg

C6_Witness ==
    /\ last.op = "updateActiveDesigns"
    /\ last.arg = simultaneousDesigns(acct.tier)
    /\ last.pre.activeDesignRequests # last.arg
    /\ last.err = NoError
    /\ subs[1].activeDesignRequests = last.arg

\* C9: resetMonthlyUsage zeroes the counter, sets lastResetDate to now,
\* persists and returns true when the month or the year of now differs from
\* that of lastResetDate; when both are equal it returns false and changes
\* nothing and saves nothing.
C9_ResetContract ==
    last.op = "resetMonthlyUsage" =>
        IF \/ getMonth(last.at) # getMonth(last.pre.lastResetDate)
           \/ getFullYear(last.at) # getFullYear(last.pre.lastResetDate)
        THEN /\ last.ret = 1
             /\ acct.designsUsedThisMonth = 0
             /\ acct.lastResetDate = last.at
             /\ last.saved
             /\ subs[1] = acct
        ELSE /\ last.ret = 0
             /\ acct = last.pre
             /\ ~last.saved
             /\ subs[1] = last.pre

C9_Witness ==
    /\ last.op = "resetMonthlyUsage"
    /\ getMonth(last.at) = getMonth(last.pre.lastResetDate)
    /\ getFullYear(last.at) # getFullYear(last.pre.lastResetDate)
    /\ last.pre.designsUsedThisMonth > 0
    /\ last.ret = 1
    /\ subs[1].designsUsedThisMonth = 0

\* C10: within one calendar month at most one resetMonthlyUsage call (made
\* directly or by incrementDesignUsage) returns true; a call that returns
\* false leaves designsUsedThisMonth untouched.
C10_ResetOncePerMonth ==
    /\ resets <= 1
    /\ (last.op = "resetMonthlyUsage" /\ last.ret = 0) =>
          /\ acct.designsUsedThisMonth = last.pre.designsUsedThisMonth
          /\ subs[1].designsUsedThisMonth = last.pre.designsUsedThisMonth

C10_Witness ==
    /\ resets = 1
    /\ last.op = "resetMonthlyUsage"
    /\ last.ret = 0
    /\ acct.designsUsedThisMonth > 0

\* calendar months from the epoch to date d
MonthIndex(d) == d \div TicksPerMonth

UsageOps == {"resetMonthlyUsage", "incrementDesignUsage"}

\* C11 (as stated): between two operations of the same calendar month
\* designsUsedThisMonth does not decrease, and every calendar-month boundary
\* the account crosses has its own reset to 0: a usage call never finds more
\* than one boundary crossed since the previous reset.
C11_OneResetPerBoundary ==
    last.op \in UsageOps =>
    /\ ~ResetDue(last.pre, last.at) =>
          acct.designsUsedThisMonth >= last.pre.designsUsedThisMonth
    /\ MonthIndex(last.at) - MonthIndex(last.pre.lastResetDate) <= 1

\* C11 (amended): a call made in the calendar month of lastResetDate never
\* decreases designsUsedThisMonth and leaves lastResetDate alone; the first
\* resetMonthlyUsage or incrementDesignUsage call made in a later calendar
\* month resets the counter to 0 once (incrementDesignUsage then counts 1)
\* and stamps lastResetDate, however many month boundaries were crossed
\* since the previous reset.
C11_ResetOnFirstCallOfMonth ==
    last.op # "none" =>
    IF last.op \in UsageOps /\ ResetDue(last.pre, last.at)
    THEN /\ acct.lastResetDate = last.at
         /\ acct.designsUsedThisMonth =
               (IF last.op = "incrementDesignUsage" /\ last.err = NoError
                THEN 1 ELSE 0)
         /\ now \div TicksPerMonth = MonthIndex(last.at) => resets = 1
    ELSE /\ acct.lastResetDate = last.pre.lastResetDate
         /\ acct.designsUsedThisMonth >= last.pre.designsUsedThisMonth
         /\ resets <= 1

\* a reset that covers more than one crossed month boundary
C11_Witness ==
    /\ last.op = "incrementDesignUsage"
    /\ MonthIndex(last.at) - MonthIndex(last.pre.lastResetDate) > 1
    /\ last.pre.designsUsedThisMonth > 1
    /\ acct.designsUsedThisMonth = 1
    /\ resets = 1

\* C12: with the tier loaded, hasReachedDesignLimit is true exactly when
\* designsUsedThisMonth >= the tier's designsPerMonth; right after a
\* successful incrementDesignUsage it is true exactly when the count the
\* call returned equals the quota, and after a refused one it is true.
C12_LimitReachedIffQuota ==
    /\ (last.op = "hasReachedDesignLimit" /\ last.arg = 1) =>
          (last.ret = 1 <=>
             last.pre.designsUsedThisMonth >= designsPerMonth(last.pre.tier))
    /\ last.op = "incrementDesignUsage" =>
          IF last.err = NoError
          THEN /\ last.ret <= designsPerMonth(acct.tier)
               /\ hasReachedDesignLimit(acct, TRUE) <=>
                     last.ret = designsPerMonth(acct.tier)
          ELSE hasReachedDesignLimit(acct, TRUE)

C12_Witness ==
    /\ last.op = "hasReachedDesignLimit"
    /\ last.arg = 1
    /\ last.ret = 1
    /\ last.pre.designsUsedThisMonth = designsPerMonth(last.pre.tier)
    /\ last.pre.designsUsedThisMonth > 1

\* C13: read from a document whose tier is not populated, the monthly-limit
\* check fails with an unresolved-reference error instead of returning a
\* Boolean.
C13_UnpopulatedTierFails ==
    (last.op \in {"hasReachedDesignLimit", "canAddActiveDesign"}
       /\ last.arg = 0) =>
    last.err # NoError

\* C14: with the tier loaded, canAddActiveDesign is true exactly when
\* activeDesignRequests < the tier's simultaneousDesigns.
C14_CanAddIffBelowLimit ==
    (last.op = "canAddActiveDesign" /\ last.arg = 1) =>
    (last.ret = 1 <=>
       last.pre.activeDesignRequests < simultaneousDesigns(last.pre.tier))

C14_Witness ==
    /\ last.op = "canAddActiveDesign"
    /\ last.arg = 1
    /\ last.ret = 0
    /\ last.pre.activeDesignRequests = simultaneousDesigns(last.pre.tier)
    /\ last.pre.activeDesignRequests > 1

(***************************************************************************)
(* Properties of Spec and SpecCheckout.                                    *)
(***************************************************************************)
\* handlers whose incrementDesignUsage call has returned a count
AfterIncrement == {i \in Handlers : h[i].pc \in {"count", "update"}}

Quiescent == \A i \in Handlers : h[i].pc = "idle"

NonTerminalStatuses ==
    {"draft", "submitted", "in-review", "in-progress", "revision-requested",
     "pending-approval"}

\* C3: of two handlers that call incrementDesignUsage on the same account
\* concurrently while one monthly slot remains, at most one succeeds: two
\* handlers are never both past a successful increment that brought their
\* copy of the counter to the quota in the same month.
C3_NoTwoSuccesses ==
    \A i, j \in AfterIncrement :
        (/\ i # j
         /\ h[i].sid = h[j].sid
         /\ h[i].doc.tier = h[j].doc.tier
         /\ getMonth(h[i].doc.lastResetDate) = getMonth(h[j].doc.lastResetDate)
         /\ getFullYear(h[i].doc.lastResetDate) = getFullYear(h[j].doc.lastResetDate)
         /\ h[i].doc.designsUsedThisMonth = designsPerMonth(h[i].doc.tier))
        => h[j].doc.designsUsedThisMonth # designsPerMonth(h[j].doc.tier)

\* C4: designsUsedThisMonth of every account is at most the designsPerMonth
\* of the account's current tier.
C4_UsedWithinQuota ==
    \A s \in DOMAIN subs :
        subs[s].designsUsedThisMonth <= designsPerMonth(subs[s].tier)

\* C5: activeDesignRequests of every account is at most the
\* simultaneousDesigns of the account's current tier.
C5_ActiveWithinQuota ==
    \A s \in DOMAIN subs :
        subs[s].activeDesignRequests <= simultaneousDesigns(subs[s].tier)

\* C7: whenever no handler is running, activeDesignRequests of the user's
\* account equals the number of the user's requests in a non-terminal status.
C7_ActiveCountIsLive ==
    Quiescent =>
        \A s \in DOMAIN subs :
            subs[s].activeDesignRequests = countDocuments(NonTerminalStatuses)

\* C8: the user has at most one account whose status is active or trialing.
C8_OneActiveAccount == Cardinality(findActiveByUser) <= 1

(***************************************************************************)
(* Properties of SpecLifecycle.                                            *)
(***************************************************************************)
\* C15: isActive is true for the statuses active and trialing and false for
\* past_due, paused, canceled and expired, and findActiveByUser returns only
\* accounts for which isActive is true.
C15_IsActiveIffActiveOrTrialing ==
    /\ acct.status \in Statuses
    /\ last.op = "isActive" =>
          (last.ret = 1 <=> last.pre.status \in {"active", "trialing"})
    /\ last.op = "findActiveByUser" =>
          (last.ret = 1 <=> last.pre.status \in {"active", "trialing"})
    /\ \A s \in findActiveByUser : isActive(subs[s])

C15_Witness ==
    /\ last.op = "findActiveByUser"
    /\ last.pre.status = "trialing"
    /\ last.ret = 1

\* C16: cancel on an already-canceled account is a no-op: it does not
\* overwrite canceledAt or cancelationReason.
C16_CancelIdempotent ==
    (last.op = "cancel" /\ last.pre.status = "canceled") =>
    /\ acct.canceledAt = last.pre.canceledAt
    /\ acct.cancelationReason = last.pre.cancelationReason
    /\ subs[1] = last.pre

\* C17: pause sets the status to paused only when the status is active; in
\* any other status it fails with an invalid-transition error and leaves
\* status, pausedAt and resumeDate unchanged.
C17_PauseOnlyWhenActive ==
    last.op = "pause" =>
    IF last.pre.status = "active"
    THEN last.err = NoError /\ acct.status = "paused"
    ELSE /\ last.err # NoError
         /\ acct.status = last.pre.status
         /\ acct.pausedAt = last.pre.pausedAt
         /\ acct.resumeDate = last.pre.resumeDate

\* C18: resume sets the status to active and clears pausedAt and resumeDate
\* only when the status is paused; in any other status it fails with
\* 'Subscription is not paused' and the account is unchanged and unsaved.
C18_ResumeOnlyWhenPaused ==
    last.op = "resume" =>
    IF last.pre.status = "paused"
    THEN /\ last.err = NoError
         /\ acct = [last.pre EXCEPT !.status = "active", !.pausedAt = NullDate,
                                    !.resumeDate = NullDate]
         /\ subs[1] = acct
    ELSE /\ last.err = NotPausedError
         /\ ~last.saved
         /\ acct = last.pre
         /\ subs[1] = last.pre

C18_Witness ==
    /\ last.op = "resume"
    /\ last.pre.status = "canceled"
    /\ last.pre.pausedAt # NullDate
    /\ last.err = NotPausedError

(***************************************************************************)
(* Properties of SpecBilling.                                              *)
(***************************************************************************)
\* calendar months from year 0 to the month of date
CalendarMonth(date) == date.y * MonthsPerYear + date.m

PeriodMonths(doc) == IF doc.billingPeriod = "quarterly" THEN 3 ELSE 1

\* C19 (as stated): calculateNextBillingDate returns currentPeriodEnd
\* advanced by exactly 1 calendar month for a monthly account and 3 for a
\* quarterly one, with the same day of the month.
C19_SameDayNextPeriod ==
    last.op = "calculateNextBillingDate" =>
    /\ CalendarMonth(last.ret) =
          CalendarMonth(last.pre.currentPeriodEnd) + PeriodMonths(last.pre)
    /\ last.ret.d = last.pre.currentPeriodEnd.d

\* C19 (amended): calculateNextBillingDate returns the date that lies
\* (day of month - 1) days after the first day of the month 1 (monthly) or
\* 3 (quarterly) calendar months after that of currentPeriodEnd, at the
\* same time of day: the same day of the month when the target month has
\* that day, and otherwise the excess days into the month after it.
C19_NextPeriodWithOverflow ==
    last.op = "calculateNextBillingDate" =>
    LET end == last.pre.currentPeriodEnd
        target == CalendarMonth(end) + PeriodMonths(last.pre)
        first == [y |-> target \div MonthsPerYear, m |-> target % MonthsPerYear,
                  d |-> 1, t |-> end.t]
    IN  /\ getTime(last.ret) = getTime(first) + (end.d - 1) * TicksPerDay
        /\ last.ret.d >= 1
        /\ last.ret.d <= DaysInMonth(last.ret.y, last.ret.m)
        /\ end.d <= DaysInMonth(first.y, first.m) =>
              /\ CalendarMonth(last.ret) = target
              /\ last.ret.d = end.d
        /\ last.pre = acct

\* a quarterly period end on a 31st whose target month has 30 days
C19_Witness ==
    /\ last.op = "calculateNextBillingDate"
    /\ last.pre.billingPeriod = "quarterly"
    /\ last.pre.currentPeriodEnd.d = 31
    /\ last.ret.d = 1
    /\ CalendarMonth(last.ret) = CalendarMonth(last.pre.currentPeriodEnd) + 4

\* C20: calculateProration returns daysRemaining = the ceiling of the days
\* from now to currentPeriodEnd, credit = (current amount / D_old) *
\* daysRemaining, charge = (price of the new tier for the new period /
\* D_new) * daysRemaining and proration = charge - credit, where D is 30 for
\* a monthly and 90 for a quarterly period; proration is positive when the
\* charge exceeds the credit and negative when the credit exceeds it.
C20_ProrationFormula ==
    last.op = "calculateProration" =>
    LET r == last.ret
        diff == getTime(last.pre.currentPeriodEnd) - getTime(last.at)
        dOld == IF last.pre.billingPeriod = "quarterly" THEN 90 ELSE 30
        dNew == IF last.arg.billingPeriod = "quarterly" THEN 90 ELSE 30
        price == IF last.arg.billingPeriod = "quarterly"
                 THEN pricing(last.arg.tier).quarterly
                 ELSE pricing(last.arg.tier).monthly
    IN  /\ (r.daysRemaining - 1) * TicksPerDay < diff
        /\ diff <= r.daysRemaining * TicksPerDay
        /\ r.credit.n * dOld = last.pre.amount * r.daysRemaining * r.credit.d
        /\ r.charge.n * dNew = price * r.daysRemaining * r.charge.d
        /\ r.proration.n * r.charge.d * r.credit.d =
              (r.charge.n * r.credit.d - r.credit.n * r.charge.d)
                 * r.proration.d
        /\ r.proration.n > 0 <=>
              r.charge.n * r.credit.d > r.credit.n * r.charge.d
        /\ r.proration.n < 0 <=>
              r.charge.n * r.credit.d < r.credit.n * r.charge.d
        /\ last.pre = acct

\* an upgrade from monthly to quarterly with a fraction of a day remaining
C20_Witness ==
    /\ last.op = "calculateProration"
    /\ last.pre.billingPeriod = "monthly"
    /\ last.arg.billingPeriod = "quarterly"
    /\ last.pre.tier = "starter"
    /\ last.arg.tier = "professional"
    /\ last.at.t # 0
    /\ last.ret.daysRemaining = 1
    /\ last.ret.proration.n > 0
    /\ last.ret.proration.d > 1

BillingProjections ==
    {"calculateNextBillingDate", "daysUntilNextBilling", "calculateProration"}

\* C22: evaluating calculateNextBillingDate, daysUntilNextBilling or
\* calculateProration leaves every field of the account as it was, in the
\* loaded document and in the stored one, and performs no save.
C22_ProjectionsArePure ==
    last.op \in BillingProjections =>
    /\ acct = last.pre
    /\ subs = <<last.pre>>
    /\ ~last.saved

\* the method returns a date other than the stored nextBillingDate and the
\* stored one stays
C22_Witness ==
    /\ last.op = "calculateNextBillingDate"
    /\ last.ret # last.pre.nextBillingDate
    /\ last.ret # last.pre.currentPeriodEnd
    /\ subs[1].nextBillingDate = last.pre.nextBillingDate
    /\ subs[1].currentPeriodEnd = last.pre.currentPeriodEnd

\* C29: a save with a modified currentPeriodEnd, the first save at creation
\* included, persists nextBillingDate = calculateNextBillingDate(), that is
\* currentPeriodEnd advanced by the 1 or 3 months of the billing period,
\* whatever nextBillingDate the caller assigned; a save that does not
\* modify currentPeriodEnd leaves nextBillingDate unchanged.
C29_HookSetsNextBillingDate ==
    /\ last.op = "create" =>
          /\ subs[1].nextBillingDate = calculateNextBillingDate(subs[1])
          /\ getTime(subs[1].nextBillingDate) =
                getTime([y |-> (CalendarMonth(last.pre.currentPeriodEnd)
                                  + PeriodMonths(last.pre)) \div MonthsPerYear,
                         m |-> (CalendarMonth(last.pre.currentPeriodEnd)
                                  + PeriodMonths(last.pre)) % MonthsPerYear,
                         d |-> 1, t |-> last.pre.currentPeriodEnd.t])
                  + (last.pre.currentPeriodEnd.d - 1) * TicksPerDay
          /\ subs[1].currentPeriodEnd = last.pre.currentPeriodEnd
          /\ acct = subs[1]
    /\ last.op = "upgrade" =>
          /\ subs[1].nextBillingDate = last.pre.nextBillingDate
          /\ subs[1].currentPeriodEnd = last.pre.currentPeriodEnd
          /\ acct = subs[1]

\* the caller assigned nextBillingDate = currentPeriodEnd; another date
\* was persisted
C29_Witness ==
    /\ last.op = "create"
    /\ last.pre.billingPeriod = "quarterly"
    /\ last.pre.nextBillingDate = last.pre.currentPeriodEnd
    /\ subs[1].nextBillingDate # last.pre.nextBillingDate
    /\ subs[1].nextBillingDate.y = last.pre.currentPeriodEnd.y + 1

(***************************************************************************)
(* Properties of the request-creation handlers (SpecCreate, Spec).         *)
(***************************************************************************)
CreateKinds == {"createRequest", "dashCreateRequest"}

\* C23: a request-creation handler that hits a quota violation, found by
\* its pre-check or raised by incrementDesignUsage or updateActiveDesigns,
\* answers with a 4xx status, never a 5xx one.  (The quota errors are the
\* only failures the handlers of the model have.)
C23_QuotaRejectionIs4xx ==
    (resp.kind \in CreateKinds /\ resp.status >= 400) => resp.status < 500

\* C24: a createRequest (dashboardUtils) handler is past its quota checks
\* only with a loaded copy that passed both of them, also when the requests
\* persisted meanwhile already exceed the tier's simultaneousDesigns: two
\* racing handlers both pass on their stale copies and both persist.
C24_ChecksPassedOnLoadedCopy ==
    \A i \in Handlers :
       (h[i].kind = "dashCreateRequest" /\ h[i].pc # "idle") =>
       /\ h[i].doc.activeDesignRequests < simultaneousDesigns(h[i].doc.tier)
       /\ h[i].doc.designsUsedThisMonth - (IF i \in AfterIncrement THEN 1 ELSE 0)
             < designsPerMonth(h[i].doc.tier)

\* both handlers have persisted their request on copies that show no active
\* request: two active requests where the tier allows one
C24_Witness ==
    /\ \A i \in Handlers :
          /\ h[i].kind = "dashCreateRequest"
          /\ h[i].pc \in {"reset", "incr", "count", "update"}
          /\ h[i].doc.activeDesignRequests = 0
    /\ countDocuments(ActiveStatuses) = 2
    /\ \A s \in findActiveByUser :
          countDocuments(ActiveStatuses) > simultaneousDesigns(subs[s].tier)

\* C26: an account that reached its monthly quota can create requests again
\* once the calendar month has changed: createRequest is not rejected with
\* 'Monthly design limit reached' in a calendar month later than that of
\* the account's lastResetDate.
C26_NewMonthAccepted ==
    [][(resp' # resp /\ resp'.kind \in CreateKinds
          /\ resp'.message = "Monthly design limit reached") =>
       \A s \in findActiveByUser : ~ResetDue(subs[s], now)]_vars

\* a request-creation handler that ends in an error response after it has
\* persisted its request
ErrorAfterInsert(i) ==
    /\ h[i].kind \in CreateKinds
    /\ h[i].pc \in {"reset", "incr", "count", "update"}
    /\ h'[i].pc = "idle"
    /\ resp'.status >= 400

\* C27: request creation and usage accounting succeed or fail together: when
\* a handler ends in an error response because incrementDesignUsage or
\* updateActiveDesigns failed, its DesignRequest does not remain persisted
\* and the unit it added to designsUsedThisMonth is taken back.
C27_CreationAndAccountingTogether ==
    [][\A i \in Handlers :
          ErrorAfterInsert(i) =>
          /\ Len(requests') = Len(requests) - 1
          /\ i \in AfterIncrement =>
                subs'[h[i].sid].designsUsedThisMonth
                   = subs[h[i].sid].designsUsedThisMonth - 1]_vars

\* a step in which a request-creation handler starts
StartsCreate ==
    \E i \in Handlers :
       /\ h[i].pc = "idle"
       /\ \/ h'[i].kind \in CreateKinds
          \/ h' = h /\ resp' # resp /\ resp'.kind \in CreateKinds

\* C28: once the user's account is canceled and no other account exists,
\* every createRequest that starts is rejected with 'Active subscription
\* required', creates no DesignRequest and changes no usage counter.
C28_CanceledRejectsCreate ==
    [][((\A s \in DOMAIN subs : subs[s].status = "canceled")
          /\ StartsCreate) =>
       /\ resp'.status = 403
       /\ resp'.message = "Active subscription required"
       /\ h' = h
       /\ requests' = requests
       /\ subs' = subs]_vars

C28_Witness ==
    /\ resp.kind \in CreateKinds
    /\ resp.message = "Active subscription required"
    /\ \A s \in DOMAIN subs : subs[s].status = "canceled"
    /\ Len(requests) >= 1
    /\ \E s \in DOMAIN subs : subs[s].designsUsedThisMonth >= 1

Seeded == last.op = "seedDefaultTiers" /\ last.err = NoError

LevelUnique ==
    \A j, k \in DOMAIN tiers : tiers[j].tierLevel = tiers[k].tierLevel => j = k

QuotasBelow(a, b) ==
    /\ a.designsPerMonth < b.designsPerMonth
    /\ a.simultaneousDesigns < b.simultaneousDesigns

PricesBelow(a, b) ==
    /\ a.monthly < b.monthly
    /\ a.quarterly < b.quarterly

\* C25 as stated: in the catalog seedDefaultTiers has produced, tierLevel is
\* unique and a tier of a lower level has strictly smaller quotas and
\* strictly smaller monthly and quarterly prices than a tier of a higher
\* level.
C25_LevelOrdersQuotasAndPrices ==
    Seeded =>
    /\ LevelUnique
    /\ \A j, k \in DOMAIN tiers :
          tiers[j].tierLevel < tiers[k].tierLevel =>
          QuotasBelow(tiers[j], tiers[k]) /\ PricesBelow(tiers[j], tiers[k])

\* C25, amended: in the catalog seedDefaultTiers has produced, tierLevel is
\* unique, a tier of a lower level has strictly smaller quotas than a tier
\* of a higher level, and strictly smaller monthly and quarterly prices
\* unless the tier of the higher level is a custom tier.
C25_LevelOrdersQuotasAndListedPrices ==
    Seeded =>
    /\ LevelUnique
    /\ \A j, k \in DOMAIN tiers :
          tiers[j].tierLevel < tiers[k].tierLevel =>
          /\ QuotasBelow(tiers[j], tiers[k])
          /\ ~tiers[k].isCustom => PricesBelow(tiers[j], tiers[k])

C25_Witness ==
    /\ Seeded
    /\ Len(tiers) = 3
    /\ tiers[1].tierLevel = 2
    /\ tiers[1].isCustom
    /\ \E k \in DOMAIN tiers : tiers[k].tierLevel = 1 /\ ~tiers[k].isCustom

====
